---- MODULE Spec2Model ----
(***************************************************************************)
(* A model of build_model.py: the progressive batch generator              *)
(* (generate_dataset), the training driver that pulls batches from a train *)
(* and a dev generator, and the greedy decoder (sample_caption).           *)
(*                                                                         *)
(* Python strings are modelled as sequences of one-character strings, so   *)
(* that str.split, str.replace and concatenation are computed character by *)
(* character.  numpy's process-wide random state is one variable, rng,     *)
(* read and advanced by every np.random.choice call of every generator.    *)
(***************************************************************************)
EXTENDS Integers, Sequences, FiniteSets, TLC

(***************************************************************************)
(* Bounds of the model.                                                    *)
(***************************************************************************)
MaxLen == 4          \* max_length ranges over 1..MaxLen
MaxTrain == 5        \* the train split holds 1..MaxTrain photos
MaxDev == 2          \* the dev split holds 1..MaxDev photos
MaxBatch == 3        \* num_photos ranges over 1..MaxBatch
MaxPulls == 5        \* next() calls a free consumer makes
MaxRounds == 2       \* rounds of the driver's outer loop (num_epoches)
MaxFitEpochs == 2    \* epochs of one fit_generator call (epochs=)
RngMod == 8          \* size of the random generator's state space
MaxEnc == 4          \* longest encoded caption drawn for one example
MaxId == 3           \* encoded captions are drawn over the ids 1..MaxId

(***************************************************************************)
(* Python strings and lists.                                               *)
(***************************************************************************)
Space == " "

\* The element of a one-element set.  The({e(x) : x \in {v}}) is e(v) with v
\* computed once.
The(S) == CHOOSE x \in S : TRUE

StartSeq == <<"s", "t", "a", "r", "t", "s", "e", "q">>
EndSeq == <<"e", "n", "d", "s", "e", "q">>
WordIn == <<"i", "n">>
WordDog == <<"d", "o", "g">>
WordCat == <<"c", "a", "t">>

\* s[i:] for a 1-based i
Drop(s, i) == SubSeq(s, i, Len(s))

\* whether pat occurs in s at position i
MatchAt(s, pat, i) ==
    /\ i + Len(pat) - 1 <= Len(s)
    /\ SubSeq(s, i, i + Len(pat) - 1) = pat

\* str.replace(pat, ''): every non-overlapping occurrence, left to right
RECURSIVE Remove(_, _)
Remove(s, pat) ==
    IF s = <<>> THEN <<>>
    ELSE IF MatchAt(s, pat, 1) THEN Remove(Drop(s, Len(pat) + 1), pat)
    ELSE <<Head(s)>> \o Remove(Tail(s), pat)

\* str.split(): the maximal runs of non-blank characters, in order
Split(s) ==
    LET starts == {i \in 1..Len(s) :
                      s[i] # Space /\ (i = 1 \/ s[i - 1] = Space)}
        ends == {j \in 1..Len(s) :
                    s[j] # Space /\ (j = Len(s) \/ s[j + 1] = Space)}
        Nth(S, k) == CHOOSE i \in S : Cardinality({j \in S : j < i}) = k - 1
    IN  [k \in 1..Cardinality(starts) |->
            SubSeq(s, Nth(starts, k), Nth(ends, k))]

\* ' '.join(words)
RECURSIVE Join(_)
Join(words) ==
    IF words = <<>> THEN <<>>
    ELSE IF Len(words) = 1 THEN words[1]
    ELSE words[1] \o <<Space>> \o Join(Tail(words))

\* list[:-1]
AllButLast(e) == IF e = <<>> THEN <<>> ELSE SubSeq(e, 1, Len(e) - 1)

\* list[1:]
AllButFirst(e) == Drop(e, 2)

(***************************************************************************)
(* The fitted tokenizer: words by falling frequency, ids from 1.  The      *)
(* words counted at least min_freq times come first; vocab_size is their   *)
(* number plus one (id 0 is the padding id and names no word).             *)
(***************************************************************************)
FrequentWords == <<StartSeq, EndSeq, WordIn, WordDog>>
RareWords == <<WordCat>>

index_word == FrequentWords \o RareWords

vocab_size == Len(FrequentWords) + 1

\* tokenizer.word_index.get(w): 0 stands for None
WordIndexOf(w) ==
    IF \E i \in DOMAIN index_word : index_word[i] = w
    THEN CHOOSE i \in DOMAIN index_word : index_word[i] = w
    ELSE 0

\* Tokenizer(num_words=vocab_size).texts_to_sequences([text])[0]: unknown
\* words and words whose id is num_words or more are left out
EncodeWords(words) ==
    SelectSeq([i \in DOMAIN words |-> WordIndexOf(words[i])],
              LAMBDA i : i # 0 /\ i < vocab_size)

TextsToSequences(text) == EncodeWords(Split(text))

(***************************************************************************)
(* keras pad_sequences and to_categorical.                                 *)
(***************************************************************************)
Zeros(n) == [i \in 1..n |-> 0]

\* truncating='pre' (the default): the last maxlen ids are kept
Truncate(seq, maxlen) ==
    IF Len(seq) > maxlen THEN Drop(seq, Len(seq) - maxlen + 1) ELSE seq

\* A plausible slip: padding='post'
PadSequencesPost(seq, maxlen) ==
    The({t \o Zeros(maxlen - Len(t)) : t \in {Truncate(seq, maxlen)}})

\* pad_sequences([seq], maxlen=maxlen, padding='pre')[0]
PadSequences(seq, maxlen) ==
    The({Zeros(maxlen - Len(t)) \o t : t \in {Truncate(seq, maxlen)}})

\* to_categorical(ids, num_classes=n): one one-hot row per id
ToCategorical(ids, n) ==
    [i \in 1..Len(ids) |-> [k \in 0..(n - 1) |-> IF k = ids[i] THEN 1 ELSE 0]]

\* The training example built from one encoded caption (lines 274-277)
Example(enc, maxlen) ==
    The({[padded_text |-> PadSequences(tmp_text, maxlen),
          padded_Y |-> padded_Y,
          Y |-> ToCategorical(padded_Y, vocab_size)] :
            tmp_text \in {AllButLast(enc)},
            padded_Y \in {PadSequences(AllButFirst(enc), maxlen)}})

(***************************************************************************)
(* State.                                                                  *)
(***************************************************************************)
VARIABLES
    max_length,   \* maximum length of an input sequence (line 209)
    num_photos,   \* photos per batch (line 299)
    photos,       \* photos[g]: len(photo_ids) of generator g's caption_dict
    gen,          \* gen[g]: the frame of generator g (s, count, X_img, ...)
    rng,          \* numpy's process-wide random state
    ctl,          \* who runs: "driver", or the generator inside next()
    out,          \* the batch the last yield handed to the caller
    solo,         \* the train generator run alone from the same seed
    pulls,        \* next() calls made so far
    drv,          \* the training driver (lines 297-316)
    caption,      \* sample_caption: the running caption
    padded,       \* sample_caption: the model's text input
    pred,         \* sample_caption: pred_Y.argmax(), -1 before the first query
    next_word,    \* sample_caption: the word looked up for pred
    dpc,          \* sample_caption: "loop", "strip", "done", "aborted"
    iters,        \* sample_caption: model queries made
    result,       \* sample_caption: the returned string
    encoded,      \* one encoded caption handed to the example builder
    example,      \* the example built from it
    built         \* whether example has been built

genVars == <<num_photos, photos, gen, rng, ctl, out, solo, pulls>>
drvVars == <<drv>>
decVars == <<caption, padded, pred, next_word, dpc, iters, result>>
padVars == <<encoded, example, built>>
vars == <<max_length, genVars, drvVars, decVars, padVars>>

Generators == {"train", "dev"}

NoExample == [padded_text |-> <<>>, padded_Y |-> <<>>, Y |-> <<>>]

\* a generator object that has been created and not yet advanced
NewFrame ==
    [pc |-> "start", s |-> <<>>, count |-> 0, X |-> <<>>,
     epoch |-> 0, emitted |-> <<>>, sizes |-> <<>>]

\* the parts of the state a specification does not use
GenIdle ==
    /\ num_photos = 1
    /\ photos = [g \in Generators |-> 1]
    /\ gen = [g \in Generators |-> NewFrame]
    /\ rng = 0
    /\ ctl = "driver"
    /\ out = [g \in Generators |-> <<>>]
    /\ solo = [frame |-> NewFrame, rng |-> 0, out |-> <<>>]
    /\ pulls = 0

DrvIdle == drv = [pc |-> "idle", i |-> 0, ep |-> 0, step |-> 0, seen |-> <<>>]

DecIdle ==
    /\ caption = <<>>
    /\ padded = <<>>
    /\ pred = -1
    /\ next_word = <<>>
    /\ dpc = "idle"
    /\ iters = 0
    /\ result = <<>>

PadIdle ==
    /\ encoded = <<>>
    /\ example = NoExample
    /\ built = FALSE

(***************************************************************************)
(* The caption datasets (load_captions with wrapping=1, lines 161-176):    *)
(* photo p of a split has one or two captions, each wrapped in the         *)
(* sentinels.  The dev captions run two words longer than the train ones,  *)
(* so that some exceed the max_length derived from the train split.        *)
(***************************************************************************)
BodyWords == <<WordDog, WordCat, WordIn, WordDog>>

NumCaptions(p) == 1 + (p % 2)

CaptionText(g, p, c) ==
    LET k == ((p + c) % 3) + (IF g = "dev" THEN 2 ELSE 0)
    IN  Join(<<StartSeq>> \o SubSeq(BodyWords, 1, k) \o <<EndSeq>>)

\* the caption lists of split g, by photo id
caption_dict ==
    [g \in {"train", "dev"} |->
        [p \in 1..MaxTrain |->
            [c \in 1..NumCaptions(p) |-> CaptionText(g, p, c)]]]

CaptionList(g, p) == caption_dict[g][p]

\* tokenizer.texts_to_sequences([caption])[0] of every caption of the
\* datasets (line 272), tabulated: the tokenizer is fixed before training
encoded_dict ==
    [g \in {"train", "dev"} |->
        [p \in 1..MaxTrain |->
            [c \in 1..NumCaptions(p) |->
                TextsToSequences(caption_dict[g][p][c])]]]

\* photo_ids[i] for numpy's 0-based index i (line 255)
PhotoIdAt(i) == i + 1

SetMax(S) == CHOOSE m \in S : \A x \in S : x <= m

\* line 209: the longest train caption, in tokens, minus 1
TrainMaxLength(n) ==
    SetMax(UNION {{Len(Split(CaptionList("train", p)[c])) :
                       c \in 1..NumCaptions(p)} : p \in 1..n}) - 1

(***************************************************************************)
(* numpy's random state.  Every np.random.choice call reads the one        *)
(* process-wide state and advances it; what a call returns is a function   *)
(* of the state it finds.                                                  *)
(***************************************************************************)
RngNext(r) == (5 * r + 3) % RngMod

\* a draw from 0..n-1
RngBelow(r, n) == r % n

Swap(arr, i, j) == [arr EXCEPT ![i] = arr[j], ![j] = arr[i]]

\* numpy's permutation: a Fisher-Yates shuffle, one draw per position
RECURSIVE ShuffleFrom(_, _, _)
ShuffleFrom(arr, i, r) ==
    IF i <= 1 THEN [perm |-> arr, rng |-> r]
    ELSE The({ShuffleFrom(swapped, i - 1, r1) :
                 swapped \in {Swap(arr, i, 1 + RngBelow(r, i))},
                 r1 \in {RngNext(r)}})

\* A plausible slip: replace=True, n independent draws
RECURSIVE DrawsFrom(_, _, _)
DrawsFrom(arr, i, r) ==
    IF i > Len(arr) THEN [perm |-> arr, rng |-> r]
    ELSE The({DrawsFrom(drawn, i + 1, r1) :
                 drawn \in {[arr EXCEPT ![i] = RngBelow(r, Len(arr))]},
                 r1 \in {RngNext(r)}})

RandomOrderWithReplacement(n, r) == DrawsFrom([i \in 1..n |-> 0], 1, r)

\* line 257: np.random.choice(np.arange(n), size=n, replace=False)
RandomOrder(n, r) == ShuffleFrom([i \in 1..n |-> i - 1], n, r)

(***************************************************************************)
(* generate_dataset (lines 247-294) as a function of the generator's frame *)
(* and the random state it finds.  A frame is suspended at                 *)
(*   "start"  line 257, the top of the outer loop (also: not yet started)  *)
(*   "sample" line 265, the top of the inner loop                          *)
(*   "full"   line 286, the yield of a full batch                          *)
(*   "check"  line 291                                                     *)
(*   "part"   line 293, the yield of the epoch's last, partial batch       *)
(* epoch, emitted and sizes are history: the epochs begun, and the photo   *)
(* ids and the batch sizes yielded so far in the current epoch.            *)
(***************************************************************************)
PhotosOf(batch) == [i \in 1..Len(batch) |-> batch[i].photo]

\* A plausible slip: the generator returns after one pass
AfterEpochStop == "stopped"

\* line 256: the inner loop's break falls back into `while 1`
AfterEpoch == "start"

\* A plausible slip: the last batch of an epoch is yielded even when empty
YieldAlways(X) == TRUE

\* line 292: if len(Y) > 0
HasRemainder(X) == Len(X) > 0

Yielded(f, pc) ==
    [f EXCEPT !.pc = pc,
              !.emitted = @ \o PhotosOf(f.X),
              !.sizes = Append(@, Len(f.X))]

\* lines 265-284: one photo of the current order, one of its captions
Sampled(g, f, r, maxlen) ==
    LET s1 == f.s[f.count + 1]
        photo_id == PhotoIdAt(s1)
        caption_list == CaptionList(g, photo_id)
        s2 == RngBelow(r, Len(caption_list))
    IN  The({[f EXCEPT !.count = @ + 1,
                       !.X = Append(@, [photo |-> photo_id,
                                        caption |-> s2,
                                        X_text |-> ex.padded_text,
                                        Y |-> ex.Y])] :
                ex \in {Example(encoded_dict[g][photo_id][s2 + 1], maxlen)}})

Advance(g, f, r, n, np, maxlen) ==
    CASE f.pc = "start" ->
            LET o == RandomOrder(n, r)
            IN  [frame |-> [f EXCEPT !.pc = "sample", !.s = o.perm,
                                     !.count = 0, !.X = <<>>,
                                     !.epoch = @ + 1, !.emitted = <<>>,
                                     !.sizes = <<>>],
                 rng |-> o.rng, yield |-> FALSE]
      [] f.pc = "sample" ->
            The({IF f1.count % np = 0
                 THEN [frame |-> Yielded(f1, "full"), rng |-> RngNext(r),
                       yield |-> TRUE]
                 ELSE [frame |-> [f1 EXCEPT !.pc = "check"],
                       rng |-> RngNext(r), yield |-> FALSE] :
                    f1 \in {Sampled(g, f, r, maxlen)}})
      [] f.pc = "full" ->
            [frame |-> [f EXCEPT !.pc = "check", !.X = <<>>],
             rng |-> r, yield |-> FALSE]
      [] f.pc = "check" ->
            IF f.count >= n
            THEN IF HasRemainder(f.X)
                 THEN [frame |-> Yielded(f, "part"), rng |-> r, yield |-> TRUE]
                 ELSE [frame |-> [f EXCEPT !.pc = AfterEpoch],
                       rng |-> r, yield |-> FALSE]
            ELSE [frame |-> [f EXCEPT !.pc = "sample"],
                  rng |-> r, yield |-> FALSE]
      [] f.pc = "part" ->
            [frame |-> [f EXCEPT !.pc = AfterEpoch], rng |-> r, yield |-> FALSE]

(***************************************************************************)
(* The two generator objects (lines 306-307) and their callers.  A caller  *)
(* asks a stream for its next batch; the stream's generator then runs, one *)
(* step at a time, until it yields.  solo is the train generator run with  *)
(* a random state of its own, started from the same seed and never touched *)
(* by the dev generator: it advances whenever the train generator does.    *)
(***************************************************************************)
\* A plausible slip: one iterator shared by both streams
SharedGenerator(stream) == "train"

\* lines 306-307: each stream has a generator object of its own
GeneratorOf(stream) == stream

Running(g) == ctl \in Generators /\ GeneratorOf(ctl) = g

SoloStep(g) ==
    IF g = "train"
    THEN The({[frame |-> b.frame, rng |-> b.rng,
               out |-> IF b.yield THEN b.frame.X ELSE solo.out] :
                 b \in {Advance("train", solo.frame, solo.rng,
                                photos["train"], num_photos, max_length)}})
    ELSE solo

Step(g) ==
    \E a \in {Advance(g, gen[g], rng, photos[g], num_photos, max_length)} :
        /\ gen' = [gen EXCEPT ![g] = a.frame]
        /\ rng' = a.rng
        /\ ctl' = IF a.yield THEN "driver" ELSE ctl
        /\ out' = IF a.yield THEN [out EXCEPT ![g] = a.frame.X] ELSE out
        /\ solo' = SoloStep(g)
        /\ UNCHANGED <<max_length, num_photos, photos, pulls, drvVars,
                       decVars, padVars>>

Shuffle(g) == Running(g) /\ gen[g].pc = "start" /\ Step(g)
Sample(g) == Running(g) /\ gen[g].pc = "sample" /\ Step(g)
ResumeFull(g) == Running(g) /\ gen[g].pc = "full" /\ Step(g)
EndCheck(g) == Running(g) /\ gen[g].pc = "check" /\ Step(g)
ResumePart(g) == Running(g) /\ gen[g].pc = "part" /\ Step(g)

GenNext(g) ==
    \/ Shuffle(g)
    \/ Sample(g)
    \/ ResumeFull(g)
    \/ EndCheck(g)
    \/ ResumePart(g)

InitGen ==
    /\ num_photos \in 1..MaxBatch
    /\ photos \in [Generators -> 1..MaxTrain]
    /\ photos["dev"] <= MaxDev
    /\ max_length = TrainMaxLength(photos["train"])
    /\ gen = [g \in Generators |-> NewFrame]
    /\ rng \in 0..(RngMod - 1)
    /\ ctl = "driver"
    /\ out = [g \in Generators |-> <<>>]
    /\ solo = [frame |-> NewFrame, rng |-> rng, out |-> <<>>]
    /\ pulls = 0

\* next(generator), by a caller that pulls from either stream in any order
Request(stream) ==
    /\ ctl = "driver"
    /\ pulls < MaxPulls
    /\ ctl' = stream
    /\ pulls' = pulls + 1
    /\ UNCHANGED <<max_length, num_photos, photos, gen, rng, out, solo,
                   drvVars, decVars, padVars>>

Init == InitGen /\ DrvIdle /\ DecIdle /\ PadIdle

Next ==
    \E g \in Generators :
        \/ Request(g)
        \/ Shuffle(g)
        \/ Sample(g)
        \/ ResumeFull(g)
        \/ EndCheck(g)
        \/ ResumePart(g)

Spec == Init /\ [][Next]_vars

\* The generator runs whenever it has been asked for a batch: next() does
\* not return before the yield.  The generator's control flow reads no
\* random value, so one seed stands for all.
InitFair == Init /\ rng = 0

FairSpec ==
    InitFair /\ [][Next]_vars /\ WF_vars(\E g \in Generators : GenNext(g))

(***************************************************************************)
(* The training driver (lines 297-316).  fit_generator pulls               *)
(* steps_per_epoch batches from the train generator in each of its epochs, *)
(* evaluate_generator pulls val_steps batches from the dev generator; both *)
(* generators live across all rounds.  drv.seen holds the photo ids of     *)
(* the batches pulled in the current epoch or evaluation.  Only the        *)
(* batches the driver consumes are counted.                                *)
(***************************************************************************)
\* lines 301-302: int(len(caption_dict) / num_photos)
StepsOf(stream) == photos[stream] \div num_photos

InitDriver ==
    /\ InitGen
    /\ \A g \in Generators : StepsOf(g) >= 1
    /\ drv = [pc |-> "fit", i |-> 0, ep |-> 0, step |-> 0, seen |-> <<>>]
    /\ DecIdle /\ PadIdle

DriverFrame == <<max_length, num_photos, photos, gen, rng, out, solo, pulls,
                 decVars, padVars>>

\* fit_generator asks the train generator for the next batch of the epoch
FitPull ==
    /\ drv.pc = "fit" /\ ctl = "driver"
    /\ drv.step < StepsOf("train")
    /\ ctl' = "train"
    /\ drv' = [drv EXCEPT !.pc = "fitwait"]
    /\ UNCHANGED DriverFrame

FitTake ==
    /\ drv.pc = "fitwait" /\ ctl = "driver"
    /\ drv' = [drv EXCEPT !.pc = "fit", !.step = @ + 1,
                          !.seen = @ \o PhotosOf(out[GeneratorOf("train")])]
    /\ UNCHANGED <<ctl, DriverFrame>>

\* an epoch of fit_generator ends after steps_per_epoch batches; after the
\* call's last epoch the round goes on to the evaluation (line 313)
FitEpochEnd ==
    /\ drv.pc = "fit" /\ ctl = "driver"
    /\ drv.step = StepsOf("train")
    /\ drv' = [drv EXCEPT !.pc = IF drv.ep + 1 = MaxFitEpochs
                                 THEN "eval" ELSE "fit",
                          !.ep = @ + 1, !.step = 0, !.seen = <<>>]
    /\ UNCHANGED <<ctl, DriverFrame>>

EvalPull ==
    /\ drv.pc = "eval" /\ ctl = "driver"
    /\ drv.step < StepsOf("dev")
    /\ ctl' = "dev"
    /\ drv' = [drv EXCEPT !.pc = "evalwait"]
    /\ UNCHANGED DriverFrame

EvalTake ==
    /\ drv.pc = "evalwait" /\ ctl = "driver"
    /\ drv' = [drv EXCEPT !.pc = "eval", !.step = @ + 1,
                          !.seen = @ \o PhotosOf(out[GeneratorOf("dev")])]
    /\ UNCHANGED <<ctl, DriverFrame>>

\* the evaluation ends after val_steps batches; the next round begins
EvalEnd ==
    /\ drv.pc = "eval" /\ ctl = "driver"
    /\ drv.step = StepsOf("dev")
    /\ drv' = [drv EXCEPT !.pc = IF drv.i + 1 = MaxRounds
                                 THEN "done" ELSE "fit",
                          !.i = @ + 1, !.ep = 0, !.step = 0, !.seen = <<>>]
    /\ UNCHANGED <<ctl, DriverFrame>>

NextDriver ==
    \/ FitPull
    \/ FitTake
    \/ FitEpochEnd
    \/ EvalPull
    \/ EvalTake
    \/ EvalEnd
    \/ \E g \in Generators :
        \/ Shuffle(g)
        \/ Sample(g)
        \/ ResumeFull(g)
        \/ EndCheck(g)
        \/ ResumePart(g)

SpecDriver == InitDriver /\ [][NextDriver]_vars

(***************************************************************************)
(* Claims about generate_dataset and its callers.                          *)
(***************************************************************************)
\* the sequence ids holds each of the photo ids 1..n exactly once
IsOnePass(ids, n) ==
    /\ Len(ids) = n
    /\ {ids[i] : i \in DOMAIN ids} = 1..n

NoRepeats(ids) ==
    \A i, j \in DOMAIN ids : i # j => ids[i] # ids[j]

EpochEnded(f) == f.pc = "start" /\ f.epoch >= 1

\* C1: in every epoch the photo ids yielded across its batches are the N
\* photo ids, each exactly once.
C1_EpochVisitsEachPhotoOnce ==
    \A g \in Generators :
        /\ NoRepeats(gen[g].emitted)
        /\ \A i \in DOMAIN gen[g].emitted : gen[g].emitted[i] \in 1..photos[g]
        /\ EpochEnded(gen[g]) => IsOnePass(gen[g].emitted, photos[g])

\* C1 witness: a second epoch of more than one photo has been completed.
C1_Witness ==
    /\ gen["train"].epoch = 2
    /\ gen["train"].pc = "start"
    /\ photos["train"] >= 2
    /\ Len(gen["train"].emitted) = photos["train"]

\* C2: every yielded batch is non-empty and is a run of the current epoch's
\* order; all batches of an epoch hold num_photos examples except a last one
\* of N mod num_photos examples, which exists only when that is not zero.
C2_BatchSizes ==
    \A g \in Generators :
        LET f == gen[g]
            n == photos[g]
            full == n \div num_photos
        IN  /\ \A i \in DOMAIN f.sizes :
                   /\ f.sizes[i] >= 1
                   /\ i <= full => f.sizes[i] = num_photos
                   /\ i > full => (i = full + 1 /\ f.sizes[i] = n % num_photos)
            /\ EpochEnded(f) =>
                   Len(f.sizes) = full + (IF n % num_photos > 0 THEN 1 ELSE 0)
            /\ f.pc \in {"full", "part"} =>
                   /\ out[g] = f.X
                   /\ PhotosOf(f.X) =
                          [k \in 1..Len(f.X) |->
                              PhotoIdAt(f.s[f.count - Len(f.X) + k])]

\* C2 witness: 5 photos in batches of 2 gave the sizes 2, 2, 1 and the
\* generator stands at the top of the outer loop, about to start an epoch.
C2_Witness ==
    /\ photos["train"] = 5
    /\ num_photos = 2
    /\ gen["train"].sizes = <<2, 2, 1>>
    /\ gen["train"].pc = "start"
    /\ ctl = "train"

\* C3: a stream asked for its next batch eventually yields one, and a
\* generator resumed after the last batch of an epoch begins a new epoch.
C3_NextAlwaysYields ==
    /\ (ctl # "driver") ~> (ctl = "driver")
    /\ (\E g \in Generators :
            /\ ctl = g
            /\ gen[g].pc \in {"full", "part"}
            /\ gen[g].count >= photos[g])
         ~> (\E g \in Generators :
                /\ ctl = g
                /\ gen[g].pc = "sample"
                /\ gen[g].count = 0)

\* C3 witness: a batch of a generator's second epoch has been delivered.
C3_Witness ==
    /\ ctl = "driver"
    /\ gen["dev"].epoch = 2
    /\ gen["dev"].pc \in {"full", "part"}
    /\ out["dev"] # <<>>

\* C8, as stated: what the train generator produces does not depend on
\* whether the dev generator is pulled in between.
C8_IndependentStreams ==
    /\ gen["train"].s = solo.frame.s
    /\ out["train"] = solo.out

\* C8, amended: serving one stream never changes the frame of the other
\* stream's generator, and as long as the dev generator has drawn nothing the
\* train generator produces what it produces alone; the random state is the
\* one thing the two share.
C8_FramesIsolated ==
    /\ [][\A r, q \in Generators :
              (ctl = r /\ q # r) => gen'[GeneratorOf(q)] = gen[GeneratorOf(q)]]_vars
    /\ [](gen["dev"].epoch = 0 =>
              (gen["train"] = solo.frame /\ out["train"] = solo.out))

\* C8 witness: both streams have yielded, and the train generator's batch is
\* not the one it yields alone.
C8_Witness ==
    /\ ctl = "driver"
    /\ out["dev"] # <<>>
    /\ out["train"] # <<>>
    /\ out["train"] # solo.out
    /\ gen["train"].pc = solo.frame.pc

\* C10: every training epoch and every evaluation pulls exactly one pass.
C10_EpochIsOnePass ==
    /\ (drv.pc = "fit" /\ drv.step = StepsOf("train")) =>
           IsOnePass(drv.seen, photos["train"])
    /\ (drv.pc = "eval" /\ drv.step = StepsOf("dev")) =>
           IsOnePass(drv.seen, photos["dev"])

(***************************************************************************)
(* sample_caption (lines 324-351).                                         *)
(***************************************************************************)
\* A plausible slip: > where the code has >=
TerminateLate(word, cap, maxlen) ==
    word = EndSeq \/ Len(Split(cap)) > maxlen

\* line 344: the loop's exit condition
Terminate(word, cap, maxlen) ==
    word = EndSeq \/ Len(Split(cap)) >= maxlen

\* A plausible slip: the start sentinel is left in
StripOnlyEnd(cap) == Remove(cap, <<Space>> \o EndSeq)

\* lines 348-349
StripSentinels(cap) ==
    Remove(Remove(cap, StartSeq \o <<Space>>), <<Space>> \o EndSeq)

InitDecode ==
    /\ max_length \in 1..MaxLen
    /\ caption = StartSeq
    /\ padded = <<>>
    /\ pred = -1
    /\ next_word = <<>>
    /\ dpc = "loop"
    /\ iters = 0
    /\ result = <<>>
    /\ GenIdle /\ DrvIdle /\ PadIdle

\* One pass of the loop body (lines 333-345).  The model is opaque: its
\* arg-max is any class 0..vocab_size-1.  index_word has no entry for 0, and
\* the lookup of line 338 then raises KeyError out of sample_caption.
Predict ==
    /\ dpc = "loop"
    /\ \E id \in 0..(vocab_size - 1) :
        /\ padded' = PadSequences(TextsToSequences(caption), max_length)
        /\ pred' = id
        /\ iters' = iters + 1
        /\ IF id \notin DOMAIN index_word
           THEN /\ dpc' = "aborted"
                /\ UNCHANGED <<caption, next_word>>
           ELSE LET word == index_word[id]
                    cap == caption \o <<Space>> \o word
                IN  /\ next_word' = word
                    /\ caption' = cap
                    /\ dpc' = IF Terminate(word, cap, max_length)
                              THEN "strip" ELSE "loop"
    /\ UNCHANGED <<max_length, result, genVars, drvVars, padVars>>

\* lines 347-351
Strip ==
    /\ dpc = "strip"
    /\ result' = StripSentinels(caption)
    /\ dpc' = "done"
    /\ UNCHANGED <<max_length, caption, padded, pred, next_word, iters,
                   genVars, drvVars, padVars>>

NextDecode == Predict \/ Strip

SpecDecode == InitDecode /\ [][NextDecode]_vars

(***************************************************************************)
(* The example builder of generate_dataset on its own (lines 272-281).     *)
(***************************************************************************)
RECURSIVE SeqsUpTo(_, _)
SeqsUpTo(S, n) ==
    IF n = 0 THEN {<<>>}
    ELSE LET shorter == SeqsUpTo(S, n - 1)
         IN  shorter \cup {Append(q, x) : q \in shorter, x \in S}

InitPad ==
    /\ max_length \in 1..MaxLen
    /\ encoded \in SeqsUpTo(1..MaxId, MaxEnc)
    /\ example = NoExample
    /\ built = FALSE
    /\ GenIdle /\ DrvIdle /\ DecIdle

BuildExample ==
    /\ ~built
    /\ example' = Example(encoded, max_length)
    /\ built' = TRUE
    /\ UNCHANGED <<max_length, encoded, genVars, drvVars, decVars>>

NextPad == BuildExample

SpecPad == InitPad /\ [][NextPad]_vars

(***************************************************************************)
(* Claims about sample_caption.                                            *)
(***************************************************************************)
Max(a, b) == IF a >= b THEN a ELSE b

Tokens(str) == Len(Split(str))

\* C4, as stated: the returned caption has at most max_length - 2 tokens.
C4_AtMostMaxLenMinus2 ==
    dpc = "done" => Tokens(result) <= max_length - 2

\* C4, amended: the returned caption has at most max_length - 1 tokens
\* (one token when max_length is 1, since the loop body always runs once).
C4_AtMostMaxLenMinus1 ==
    dpc = "done" => Tokens(result) <= Max(max_length - 1, 1)

\* C4 witness: a run that the length bound stopped returns max_length - 1
\* tokens.
C4_Witness ==
    /\ dpc = "done"
    /\ max_length = 3
    /\ next_word # EndSeq
    /\ Tokens(result) = 2

\* C5: the loop makes at most max_length model queries; it is still running
\* only while no end sentinel was selected and the caption holds fewer than
\* max_length tokens, and it has stopped only for one of those two reasons.
C5_LoopBounded ==
    /\ iters <= max_length
    /\ dpc = "loop" => iters < max_length
    /\ (dpc = "loop" /\ iters > 0) =>
           (next_word # EndSeq /\ Tokens(caption) < max_length)
    /\ dpc \in {"strip", "done"} =>
           (next_word = EndSeq \/ Tokens(caption) >= max_length)

\* C5 witness: the model selected the same non-end word at every step and the
\* length bound ended the loop.
C5_Witness ==
    /\ dpc = "done"
    /\ max_length = 4
    /\ iters = 3
    /\ caption = Join(<<StartSeq, WordDog, WordDog, WordDog>>)

\* C6: the returned string holds neither sentinel as a token, and is empty
\* when the first selection is the end sentinel.
C6_NoSentinelReturned ==
    dpc = "done" =>
        /\ \A i \in DOMAIN Split(result) :
               Split(result)[i] \notin {StartSeq, EndSeq}
        /\ (iters = 1 /\ next_word = EndSeq) => result = <<>>

\* C7: an arg-max that names no word does not abort the decode.
C7_NoLookupAbort ==
    (pred >= 0 /\ pred \notin DOMAIN index_word) => dpc # "aborted"

(***************************************************************************)
(* Claims about the example builder.                                       *)
(***************************************************************************)
\* C9: input and target are max_length long, zero only in a left prefix, and
\* position by position the target holds the id that follows the input's id
\* in the encoded caption.
C9_ShiftedAndPadded ==
    built =>
        /\ Len(example.padded_text) = max_length
        /\ Len(example.padded_Y) = max_length
        /\ Len(example.Y) = max_length
        /\ \A i \in 1..max_length :
               LET k == Len(encoded) - 1 - (max_length - i)
               IN  /\ IF k >= 1
                      THEN /\ example.padded_text[i] = encoded[k]
                           /\ example.padded_Y[i] = encoded[k + 1]
                      ELSE /\ example.padded_text[i] = 0
                           /\ example.padded_Y[i] = 0
                   /\ \A c \in 0..(vocab_size - 1) :
                          example.Y[i][c] = 1 <=> c = example.padded_Y[i]
        /\ \A i, j \in 1..max_length :
               (i < j /\ example.padded_text[j] = 0) =>
                   example.padded_text[i] = 0
        /\ \A i, j \in 1..max_length :
               (i < j /\ example.padded_Y[j] = 0) => example.padded_Y[i] = 0

\* C9 witness: an example built from a caption longer than max_length + 1.
C9_Witness ==
    /\ built
    /\ max_length = 2
    /\ Len(encoded) = 4
    /\ example.padded_text = SubSeq(encoded, 2, 3)

====
